---- MODULE Spec2Model ----
(***************************************************************************)
(* Model of js/main.js: persistent dark mode and bilingual toggle.         *)
(*                                                                         *)
(* The program state is the two module-level flags, the localStorage       *)
(* entries 'darkMode' and 'lang', and the part of the document the code    *)
(* touches: the 'dark' class of <body>, the text of #dark-mode-btn and     *)
(* #lang-toggle-btn, the innerHTML of the [data-i18n] elements, the click  *)
(* listeners, and the 'langchange' events dispatched on the document.      *)
(* Every handler (DOMContentLoaded, the two click handlers) is one action: *)
(* the event loop runs each callback to completion.                        *)
(*                                                                         *)
(* Strings are kept as ASCII stand-ins: Sun is U+2600, Moon is U+263E, and *)
(* the Japanese table strings are written "jp:<key>".                      *)
(***************************************************************************)
EXTENDS Naturals, Sequences, FiniteSets, TLC

VARIABLES
    isDarkMode,      \* let isDarkMode
    currentLang,     \* let currentLang
    localStorage,    \* [darkMode, lang] -> stored string or Absent
    storageThrows,   \* TRUE when every localStorage access throws
    bodyDark,        \* document.body.classList contains 'dark'
    darkModeBtn,     \* textContent of #dark-mode-btn, or NoElement
    langToggleBtn,   \* textContent of #lang-toggle-btn, or NoElement
    tagged,          \* innerHTML of each [data-i18n] element
    listeners,       \* buttons that carry a click listener
    events,          \* 'langchange' events dispatched by the last handler
    thrown,          \* an exception escaped the last handler
    page,            \* the authored markup of the page (what a load yields)
    pc,              \* "loading" before DOMContentLoaded, then "ready"
    hist,            \* the last handlers run, each with the state before it
    hasRendered      \* applyTranslations() has run since the page was loaded

vars == <<isDarkMode, currentLang, localStorage, storageThrows, bodyDark,
          darkModeBtn, langToggleBtn, tagged, listeners, events, thrown,
          page, pc, hist, hasRendered>>

----------------------------------------------------------------------------
(* Values *)

\* How many of the last handlers the history keeps.
HistLen == 3

Absent == "<absent>"          \* localStorage.getItem(...) === null
NoElement == "<no element>"   \* document.getElementById(...) === null
Sun == "sun"
Moon == "moon"

\* Values the store may hold when the page is first opened: what this code
\* writes, nothing, or a value written by something else on the origin.
DarkModeValues == {Absent, "1", "0", "true"}
LangValues == {Absent, "jp", "en", "ja"}

\* const translations: every key of the table has a non-empty en and jp
\* string; two of its 93 entries stand for all of them.
translations ==
    [k \in {"nav-portfolio", "phase4-sub"} |->
        IF k = "nav-portfolio"
        THEN [en |-> "Portfolio", jp |-> "jp:nav-portfolio"]
        ELSE [en |-> "Risk Management & Execution", jp |-> "jp:phase4-sub"]]

\* The [data-i18n] elements of a page and their data-i18n keys: two keys of
\* the table and one key the table does not have.
Elements == {"e1", "e2", "e3"}

dataI18n(el) ==
    CASE el = "e1" -> "nav-portfolio"
      [] el = "e2" -> "phase4-sub"
      [] OTHER     -> "unlisted-key"

\* translations[key] && translations[key][lang]
HasTranslation(key, lang) ==
    /\ key \in DOMAIN translations
    /\ lang \in DOMAIN translations[key]
    /\ translations[key][lang] # ""

\* Markup a page may be authored with: an element either repeats the table's
\* English string verbatim or holds other markup; a button may be missing.
AuthoredMarkup(el) ==
    {"authored:" \o el} \cup
    (IF HasTranslation(dataI18n(el), "en")
        THEN {translations[dataI18n(el)]["en"]} ELSE {})

Pages ==
    [tagged : {t \in [Elements -> UNION {AuthoredMarkup(el) : el \in Elements}] :
                   \A el \in Elements : t[el] \in AuthoredMarkup(el)},
     darkModeBtn : {NoElement, Moon, "authored-glyph"},
     langToggleBtn : {NoElement, "JP", "authored-label"}]

----------------------------------------------------------------------------
(* The program state as one record, threaded through the functions *)

St ==
    [isDarkMode |-> isDarkMode, currentLang |-> currentLang,
     localStorage |-> localStorage, storageThrows |-> storageThrows,
     bodyDark |-> bodyDark, darkModeBtn |-> darkModeBtn,
     langToggleBtn |-> langToggleBtn, tagged |-> tagged,
     listeners |-> listeners, events |-> events, thrown |-> thrown]

\* A freshly parsed page with the script evaluated: flags at their defaults.
FreshPage(p, store, throws) ==
    [isDarkMode |-> FALSE, currentLang |-> "en",
     localStorage |-> store, storageThrows |-> throws,
     bodyDark |-> FALSE, darkModeBtn |-> p.darkModeBtn,
     langToggleBtn |-> p.langToggleBtn, tagged |-> p.tagged,
     listeners |-> {}, events |-> <<>>, thrown |-> FALSE]

\* localStorage.setItem(key, value)
setItem(s, key, value) ==
    IF s.storageThrows
    THEN [s EXCEPT !.thrown = TRUE]
    ELSE [s EXCEPT !.localStorage[key] = value]

\* A catch that lets the exception through.
Catch_rethrow(s) == s

\* catch(e) {}
Catch(s) == [s EXCEPT !.thrown = FALSE]

----------------------------------------------------------------------------
(* Dark mode *)

\* toggleDarkMode without the localStorage.setItem call.
toggleDarkMode_noPersist(s) ==
    LET s1 == [s EXCEPT !.isDarkMode = ~s.isDarkMode]
        s2 == [s1 EXCEPT !.bodyDark = s1.isDarkMode]
    IN  IF s2.darkModeBtn # NoElement
        THEN [s2 EXCEPT !.darkModeBtn = IF s2.isDarkMode THEN Sun ELSE Moon]
        ELSE s2

\* toggleDarkMode with classList.add('dark') in place of classList.toggle.
toggleDarkMode_addOnly(s) ==
    LET s1 == [s EXCEPT !.isDarkMode = ~s.isDarkMode]
        s2 == [s1 EXCEPT !.bodyDark = TRUE]
        s3 == IF s2.darkModeBtn # NoElement
              THEN [s2 EXCEPT !.darkModeBtn = IF s2.isDarkMode THEN Sun ELSE Moon]
              ELSE s2
    IN  Catch(setItem(s3, "darkMode", IF s3.isDarkMode THEN "1" ELSE "0"))

\* toggleDarkMode that stores the flag itself, as "true" or "false".
toggleDarkMode_storeBool(s) ==
    LET s1 == [s EXCEPT !.isDarkMode = ~s.isDarkMode]
        s2 == [s1 EXCEPT !.bodyDark = s1.isDarkMode]
        s3 == IF s2.darkModeBtn # NoElement
              THEN [s2 EXCEPT !.darkModeBtn = IF s2.isDarkMode THEN Sun ELSE Moon]
              ELSE s2
    IN  Catch(setItem(s3, "darkMode", IF s3.isDarkMode THEN "true" ELSE "false"))

toggleDarkMode(s) ==
    LET s1 == [s EXCEPT !.isDarkMode = ~s.isDarkMode]
        s2 == [s1 EXCEPT !.bodyDark = s1.isDarkMode]
        s3 == IF s2.darkModeBtn # NoElement
              THEN [s2 EXCEPT !.darkModeBtn = IF s2.isDarkMode THEN Sun ELSE Moon]
              ELSE s2
    IN  Catch(setItem(s3, "darkMode", IF s3.isDarkMode THEN "1" ELSE "0"))

\* Any stored value counts as dark.
SavedDark_truthy(saved) == saved # Absent

\* saved === '1'
SavedDark(saved) == saved = "1"

applyDarkMode(s) ==
    Catch(IF s.storageThrows
          THEN [s EXCEPT !.thrown = TRUE]
          ELSE LET saved == s.localStorage["darkMode"]
               IN  IF SavedDark(saved)
                   THEN LET s1 == [s EXCEPT !.isDarkMode = TRUE, !.bodyDark = TRUE]
                        IN  IF s1.darkModeBtn # NoElement
                            THEN [s1 EXCEPT !.darkModeBtn = Sun]
                            ELSE s1
                   ELSE s)

----------------------------------------------------------------------------
(* Language toggle *)

\* Translate with the language fixed to English instead of currentLang.
Translate_alwaysEn(s, el) ==
    LET key == dataI18n(el)
    IN  IF HasTranslation(key, "en")
        THEN translations[key]["en"]
        ELSE s.tagged[el]

\* Translate that shows the key when the table has no string.
Translate_showKey(s, el) ==
    LET key == dataI18n(el)
    IN  IF HasTranslation(key, s.currentLang)
        THEN translations[key][s.currentLang]
        ELSE key

\* el.innerHTML = translations[key][currentLang], when the table has it
Translate(s, el) ==
    LET key == dataI18n(el)
    IN  IF HasTranslation(key, s.currentLang)
        THEN translations[key][s.currentLang]
        ELSE s.tagged[el]

\* A label that names the current language instead of the other one.
LangLabel_current(lang) == IF lang = "en" THEN "EN" ELSE "JP"

\* currentLang === 'en' ? 'JP' : 'EN'
LangLabel(lang) == IF lang = "en" THEN "JP" ELSE "EN"

\* new CustomEvent('langchange', { detail: { lang: currentLang } }), together
\* with what a listener finds in the document and the store when it runs.
LangChange(s) ==
    [lang |-> s.currentLang, tagged |-> s.tagged,
     langToggleBtn |-> s.langToggleBtn, storedLang |-> s.localStorage["lang"]]

dispatchEvent(s) == [s EXCEPT !.events = Append(s.events, LangChange(s))]

\* applyTranslations that dispatches the event before the label is set.
applyTranslations_eventFirst(s) ==
    LET s1 == [s EXCEPT !.tagged = [el \in Elements |-> Translate(s, el)]]
        s2 == dispatchEvent(s1)
    IN  IF s2.langToggleBtn # NoElement
        THEN [s2 EXCEPT !.langToggleBtn = LangLabel(s2.currentLang)]
        ELSE s2

applyTranslations(s) ==
    LET s1 == [s EXCEPT !.tagged = [el \in Elements |-> Translate(s, el)]]
        s2 == IF s1.langToggleBtn # NoElement
              THEN [s1 EXCEPT !.langToggleBtn = LangLabel(s1.currentLang)]
              ELSE s1
    IN  dispatchEvent(s2)

\* toggleLanguage that only ever switches to Japanese.
toggleLanguage_oneWay(s) ==
    LET s1 == [s EXCEPT !.currentLang = "jp"]
        s2 == applyTranslations(s1)
    IN  Catch(setItem(s2, "lang", s2.currentLang))

toggleLanguage(s) ==
    LET s1 == [s EXCEPT !.currentLang = IF s.currentLang = "en" THEN "jp" ELSE "en"]
        s2 == applyTranslations(s1)
    IN  Catch(setItem(s2, "lang", s2.currentLang))

\* saved === 'jp'
SavedJp(saved) == saved = "jp"

\* applyLanguage that sets currentLang and forgets to render.
applyLanguage_noRender(s) ==
    Catch(IF s.storageThrows
          THEN [s EXCEPT !.thrown = TRUE]
          ELSE LET saved == s.localStorage["lang"]
               IN  IF SavedJp(saved)
                   THEN [s EXCEPT !.currentLang = "jp"]
                   ELSE s)

applyLanguage(s) ==
    Catch(IF s.storageThrows
          THEN [s EXCEPT !.thrown = TRUE]
          ELSE LET saved == s.localStorage["lang"]
               IN  IF SavedJp(saved)
                   THEN applyTranslations([s EXCEPT !.currentLang = "jp"])
                   ELSE s)

----------------------------------------------------------------------------
(* Initialize *)

\* A statement after one that threw does not run.
Then(s, t) == IF s.thrown THEN s ELSE t

initSiteControls(s) ==
    LET s1 == applyDarkMode(s)
        s2 == Then(s1, applyLanguage(s1))
        s3 == Then(s2, [s2 EXCEPT !.listeners =
                  {b \in {"dark-mode-btn"} : s2.darkModeBtn # NoElement} \cup
                  {b \in {"lang-toggle-btn"} : s2.langToggleBtn # NoElement}])
    IN  s3

----------------------------------------------------------------------------
(* The state machine *)

\* A handler starts with no event dispatched and no exception raised.
Enter(s) == [s EXCEPT !.events = <<>>, !.thrown = FALSE]

Commit(s) ==
    /\ isDarkMode' = s.isDarkMode
    /\ currentLang' = s.currentLang
    /\ localStorage' = s.localStorage
    /\ storageThrows' = s.storageThrows
    /\ bodyDark' = s.bodyDark
    /\ darkModeBtn' = s.darkModeBtn
    /\ langToggleBtn' = s.langToggleBtn
    /\ tagged' = s.tagged
    /\ listeners' = s.listeners
    /\ events' = s.events
    /\ thrown' = s.thrown

Start(s) ==
    /\ isDarkMode = s.isDarkMode
    /\ currentLang = s.currentLang
    /\ localStorage = s.localStorage
    /\ storageThrows = s.storageThrows
    /\ bodyDark = s.bodyDark
    /\ darkModeBtn = s.darkModeBtn
    /\ langToggleBtn = s.langToggleBtn
    /\ tagged = s.tagged
    /\ listeners = s.listeners
    /\ events = s.events
    /\ thrown = s.thrown

\* The last HistLen handlers, each with the state it started from.
Record(op) ==
    LET h == Append(hist, [op |-> op, before |-> St])
    IN  hist' = IF Len(h) > HistLen THEN Tail(h) ELSE h

\* A handler that dispatched 'langchange' has run applyTranslations().
NoteRender == hasRendered' = (hasRendered \/ events' # <<>>)

Init ==
    /\ page \in Pages
    /\ \E dark \in DarkModeValues, lang \in LangValues, throws \in BOOLEAN :
          Start(FreshPage(page, [darkMode |-> dark, lang |-> lang], throws))
    /\ pc = "loading"
    /\ hist = <<>>
    /\ hasRendered = FALSE

\* document.addEventListener('DOMContentLoaded', initSiteControls), or the
\* direct call when the document is already parsed.
DOMContentLoaded ==
    /\ pc = "loading"
    /\ Commit(initSiteControls(Enter(St)))
    /\ pc' = "ready"
    /\ Record("initSiteControls")
    /\ NoteRender
    /\ UNCHANGED page

\* darkBtn.addEventListener('click', toggleDarkMode)
ClickDarkModeBtn ==
    /\ pc = "ready"
    /\ "dark-mode-btn" \in listeners
    /\ Commit(toggleDarkMode(Enter(St)))
    /\ Record("toggleDarkMode")
    /\ NoteRender
    /\ UNCHANGED <<page, pc>>

\* langBtn.addEventListener('click', toggleLanguage)
ClickLangToggleBtn ==
    /\ pc = "ready"
    /\ "lang-toggle-btn" \in listeners
    /\ Commit(toggleLanguage(Enter(St)))
    /\ Record("toggleLanguage")
    /\ NoteRender
    /\ UNCHANGED <<page, pc>>

\* The page is loaded again: the script's state and the document start over,
\* the store is kept.
Reload ==
    /\ pc = "ready"
    /\ Commit(FreshPage(page, localStorage, storageThrows))
    /\ pc' = "loading"
    /\ Record("reload")
    /\ hasRendered' = FALSE
    /\ UNCHANGED page

Next == DOMContentLoaded \/ ClickDarkModeBtn \/ ClickLangToggleBtn \/ Reload

Spec == Init /\ [][Next]_vars

TypeOK ==
    /\ isDarkMode \in BOOLEAN
    /\ currentLang \in {"en", "jp"}
    /\ pc \in {"loading", "ready"}
    /\ Len(hist) <= HistLen

----------------------------------------------------------------------------
(* Reading the history *)

Ran(n) == Len(hist) >= n

\* The k-th last handler run (1 is the last one).
Back(k) == hist[Len(hist) + 1 - k]

LastOp == IF Ran(1) THEN Back(1).op ELSE "none"

\* applyTranslations() ran in the last handler.
Rendered == events # <<>>

InTable(el) == dataI18n(el) \in DOMAIN translations

----------------------------------------------------------------------------
(* Claims *)

\* C1: after applyTranslations() has run with currentLang = L, every tagged
\* element whose key has a table string for L holds exactly that string,
\* whatever it held before the call.
C1_RenderShowsTableString ==
    Rendered =>
        \A el \in Elements :
            HasTranslation(dataI18n(el), currentLang) =>
                tagged[el] = translations[dataI18n(el)][currentLang]

\* C1 witness: a render under English replaced the Japanese string of e2.
C1_Witness ==
    /\ Rendered
    /\ LastOp = "toggleLanguage"
    /\ currentLang = "en"
    /\ Back(1).before.tagged["e2"] = translations["phase4-sub"]["jp"]
    /\ tagged["e2"] = translations["phase4-sub"]["en"]

\* C2 as stated: two toggleLanguage() calls in a row return every tagged
\* element to the content it had before the first, authored markup included.
C2_Original ==
    (Ran(2) /\ Back(1).op = "toggleLanguage" /\ Back(2).op = "toggleLanguage") =>
        tagged = Back(2).before.tagged

\* C2 amended: two toggleLanguage() calls in a row return a tagged element
\* to the content it had before the first when its key is not in the table,
\* or when that content was the table's string for the language then
\* current (as after any render, or with authored markup that repeats the
\* English string); currentLang returns to its value as well.
C2_RoundTrip ==
    (Ran(2) /\ Back(1).op = "toggleLanguage" /\ Back(2).op = "toggleLanguage") =>
        LET b == Back(2).before
        IN  /\ currentLang = b.currentLang
            /\ \A el \in Elements :
                  (\/ ~InTable(el)
                   \/ b.tagged[el] = translations[dataI18n(el)][b.currentLang])
                  => tagged[el] = b.tagged[el]

\* C2 witness: the first of the two toggles was the first render after the
\* load, over authored markup equal to the English string, and e1 is back.
C2_Witness ==
    /\ Ran(3)
    /\ Back(3).op = "initSiteControls"
    /\ Back(2).op = "toggleLanguage"
    /\ Back(1).op = "toggleLanguage"
    /\ Back(2).before.currentLang = "en"
    /\ Back(2).before.tagged["e1"] = page.tagged["e1"]
    /\ Back(1).before.tagged["e1"] = translations["nav-portfolio"]["jp"]
    /\ tagged["e1"] = page.tagged["e1"]

\* C3: with lang = "jp" and darkMode = "1" stored and both buttons present,
\* initSiteControls() leaves the body dark, isDarkMode true, currentLang jp,
\* the tagged elements on their Japanese strings, the glyph Sun, the label EN.
C3_StartupFromStore ==
    (/\ LastOp = "initSiteControls"
     /\ ~storageThrows
     /\ Back(1).before.localStorage = [darkMode |-> "1", lang |-> "jp"]
     /\ page.darkModeBtn # NoElement
     /\ page.langToggleBtn # NoElement) =>
        /\ bodyDark
        /\ isDarkMode
        /\ currentLang = "jp"
        /\ \A el \in Elements :
              InTable(el) => tagged[el] = translations[dataI18n(el)]["jp"]
        /\ darkModeBtn = Sun
        /\ langToggleBtn = "EN"
        /\ ~thrown

\* C3 witness: such a startup has run over a page whose buttons and e1 held
\* other markup.
C3_Witness ==
    /\ LastOp = "initSiteControls"
    /\ ~storageThrows
    /\ Back(1).before.localStorage = [darkMode |-> "1", lang |-> "jp"]
    /\ page.darkModeBtn = "authored-glyph"
    /\ page.langToggleBtn = "authored-label"
    /\ darkModeBtn = Sun
    /\ langToggleBtn = "EN"
    /\ tagged["e1"] = translations["nav-portfolio"]["jp"]

\* What the user sees and the two flags: everything but the store.
View(s) ==
    [isDarkMode |-> s.isDarkMode, currentLang |-> s.currentLang,
     bodyDark |-> s.bodyDark, darkModeBtn |-> s.darkModeBtn,
     langToggleBtn |-> s.langToggleBtn, tagged |-> s.tagged,
     listeners |-> s.listeners,
     payloads |-> [i \in 1..Len(s.events) |-> s.events[i].lang]]

\* The same state over a store that works.
Working(s) == [s EXCEPT !.storageThrows = FALSE]

\* C4: when every localStorage access throws, initSiteControls() completes
\* with the defaults and the listeners attached, each toggle flips its flag
\* and updates the document exactly as over a working store, and no
\* exception leaves any of the three handlers.
C4_StoreFailure ==
    storageThrows =>
        /\ ~thrown
        /\ LastOp = "initSiteControls" =>
              /\ isDarkMode = FALSE
              /\ currentLang = "en"
              /\ ("dark-mode-btn" \in listeners) = (page.darkModeBtn # NoElement)
              /\ ("lang-toggle-btn" \in listeners) = (page.langToggleBtn # NoElement)
        /\ LastOp = "toggleDarkMode" =>
              LET b == Back(1).before
              IN  /\ isDarkMode = ~b.isDarkMode
                  /\ bodyDark = isDarkMode
                  /\ darkModeBtn = IF isDarkMode THEN Sun ELSE Moon
                  /\ View(St) = View(toggleDarkMode(Enter(Working(b))))
        /\ LastOp = "toggleLanguage" =>
              LET b == Back(1).before
              IN  /\ currentLang # b.currentLang
                  /\ \A el \in Elements :
                        tagged[el] = IF InTable(el)
                                     THEN translations[dataI18n(el)][currentLang]
                                     ELSE b.tagged[el]
                  /\ langToggleBtn = LangLabel(currentLang)
                  /\ View(St) = View(toggleLanguage(Enter(Working(b))))

\* C4 witness: over a throwing store whose entries say dark and Japanese,
\* startup kept the defaults and both toggles have since taken effect.
C4_Witness ==
    /\ storageThrows
    /\ localStorage = [darkMode |-> "1", lang |-> "jp"]
    /\ Ran(3)
    /\ Back(3).op = "initSiteControls"
    /\ Back(3).before.isDarkMode = FALSE
    /\ Back(2).op = "toggleDarkMode"
    /\ Back(2).before.isDarkMode = FALSE
    /\ Back(2).before.currentLang = "en"
    /\ Back(1).op = "toggleLanguage"
    /\ isDarkMode
    /\ bodyDark
    /\ currentLang = "jp"
    /\ langToggleBtn = "EN"

\* C5: over a working store, a reload followed by initSiteControls() brings
\* isDarkMode and currentLang back to their values just before the reload,
\* and the body is dark exactly when isDarkMode is true.
C5_ReloadRestores ==
    (/\ ~storageThrows
     /\ Ran(2)
     /\ Back(2).op = "reload"
     /\ Back(1).op = "initSiteControls") =>
        /\ isDarkMode = Back(2).before.isDarkMode
        /\ currentLang = Back(2).before.currentLang
        /\ bodyDark = isDarkMode

\* C5 witness: dark mode was switched on by a toggle (the store did not say
\* "1" before it), Japanese was current, and both survived the reload.
C5_Witness ==
    /\ ~storageThrows
    /\ Ran(3)
    /\ Back(3).op = "toggleDarkMode"
    /\ Back(3).before.localStorage["darkMode"] # "1"
    /\ Back(2).op = "reload"
    /\ Back(2).before.currentLang = "jp"
    /\ Back(1).op = "initSiteControls"
    /\ isDarkMode
    /\ bodyDark
    /\ currentLang = "jp"

\* C6 as stated: two toggleDarkMode() calls in a row return the dark marker
\* and the button's glyph to what they were before the first, an authored
\* glyph included.
C6_Original ==
    (Ran(2) /\ Back(1).op = "toggleDarkMode" /\ Back(2).op = "toggleDarkMode") =>
        /\ bodyDark = Back(2).before.bodyDark
        /\ darkModeBtn = Back(2).before.darkModeBtn

\* C6 amended: two toggleDarkMode() calls in a row return isDarkMode and the
\* dark marker to what they were before the first; the glyph ends on the
\* glyph of that state (Sun when dark, Moon when light), which is the glyph
\* it had before exactly when the button then showed one of the two fixed
\* glyphs for its state.
C6_RoundTrip ==
    (Ran(2) /\ Back(1).op = "toggleDarkMode" /\ Back(2).op = "toggleDarkMode") =>
        LET b == Back(2).before
        IN  /\ isDarkMode = b.isDarkMode
            /\ bodyDark = b.bodyDark
            /\ darkModeBtn = IF b.isDarkMode THEN Sun ELSE Moon
            /\ (b.darkModeBtn \in {Sun, Moon} => darkModeBtn = b.darkModeBtn)

\* C6 witness: two toggles from the light state with the button authored as
\* Moon; in between the body was dark and the glyph Sun.
C6_Witness ==
    /\ Ran(2)
    /\ Back(2).op = "toggleDarkMode"
    /\ Back(1).op = "toggleDarkMode"
    /\ Back(2).before.darkModeBtn = page.darkModeBtn
    /\ Back(2).before.bodyDark = FALSE
    /\ Back(1).before.bodyDark
    /\ Back(1).before.darkModeBtn = Sun
    /\ bodyDark = FALSE
    /\ darkModeBtn = page.darkModeBtn

\* C7: a tagged element whose key is not in the table, or whose entry has no
\* string for the current language, holds its authored content in every
\* reachable state, and no handler ends in an exception.
C7_UnlistedKeyKeepsAuthored ==
    /\ ~thrown
    /\ \A el \in Elements :
          (~InTable(el) \/ ~HasTranslation(dataI18n(el), currentLang)) =>
              tagged[el] = page.tagged[el]

\* C7 witness: after a startup that rendered Japanese and two toggles, e3
\* holds its authored content while e1 has been replaced.
C7_Witness ==
    /\ Ran(3)
    /\ Back(3).op = "initSiteControls"
    /\ Back(2).op = "toggleLanguage"
    /\ Back(2).before.currentLang = "jp"
    /\ Back(1).op = "toggleLanguage"
    /\ ~InTable("e3")
    /\ tagged["e3"] = page.tagged["e3"]
    /\ tagged["e1"] # page.tagged["e1"]

\* C8 as stated: a toggle stores nothing but "1" (or no value) under
\* 'darkMode' and nothing but "jp" (or no value) under 'lang'.
C8_Original ==
    ~storageThrows =>
        /\ LastOp = "toggleDarkMode" => localStorage["darkMode"] \in {"1", Absent}
        /\ LastOp = "toggleLanguage" => localStorage["lang"] \in {"jp", Absent}

\* C8 amended: over a working store toggleDarkMode() leaves 'darkMode' at
\* "1" when dark mode is now on and at "0" when it is now off, and
\* toggleLanguage() leaves 'lang' at the new language code, "jp" or "en";
\* neither removes a key or touches the other key, and startup and reload
\* write nothing.
C8_StoredValues ==
    /\ (~storageThrows /\ LastOp = "toggleDarkMode") =>
          /\ localStorage["darkMode"] = IF isDarkMode THEN "1" ELSE "0"
          /\ localStorage["lang"] = Back(1).before.localStorage["lang"]
    /\ (~storageThrows /\ LastOp = "toggleLanguage") =>
          /\ localStorage["lang"] = currentLang
          /\ currentLang \in {"jp", "en"}
          /\ localStorage["darkMode"] = Back(1).before.localStorage["darkMode"]
    /\ (Ran(1) /\ (storageThrows \/ LastOp \in {"initSiteControls", "reload"})) =>
          localStorage = Back(1).before.localStorage

\* C8 witness: dark mode was switched off and English switched back on, and
\* the store says "0" and "en".
C8_Witness ==
    /\ ~storageThrows
    /\ Ran(2)
    /\ Back(2).op = "toggleDarkMode"
    /\ Back(2).before.localStorage = [darkMode |-> "1", lang |-> "jp"]
    /\ Back(1).op = "toggleLanguage"
    /\ localStorage = [darkMode |-> "0", lang |-> "en"]

\* C9: a handler that runs applyTranslations() dispatches exactly one
\* 'langchange' event, carrying the language then current, at a point where
\* the tagged elements and the language button already show what they show
\* when the handler ends; in toggleLanguage() currentLang has been flipped
\* and the store still holds the old 'lang' value at that point.
C9_EventAfterRender ==
    /\ Len(events) <= 1
    /\ Rendered =>
          /\ events[1].lang = currentLang
          /\ events[1].tagged = tagged
          /\ events[1].langToggleBtn = langToggleBtn
          /\ \A el \in Elements :
                InTable(el) =>
                    events[1].tagged[el] = translations[dataI18n(el)][currentLang]
          /\ langToggleBtn # NoElement => events[1].langToggleBtn = LangLabel(currentLang)
    /\ LastOp = "toggleLanguage" =>
          /\ Rendered
          /\ currentLang # Back(1).before.currentLang
          /\ events[1].storedLang = Back(1).before.localStorage["lang"]
          /\ ~storageThrows =>
                /\ events[1].storedLang # currentLang
                /\ localStorage["lang"] = currentLang
    /\ LastOp = "initSiteControls" =>
          Rendered = (~storageThrows /\ Back(1).before.localStorage["lang"] = "jp")
    /\ LastOp \in {"toggleDarkMode", "reload"} => ~Rendered

\* C9 witness: a toggle to Japanese over a working store whose label and
\* elements changed; the event saw the new label and the old stored value.
C9_Witness ==
    /\ LastOp = "toggleLanguage"
    /\ ~storageThrows
    /\ Len(events) = 1
    /\ events[1].lang = "jp"
    /\ Back(1).before.langToggleBtn = "authored-label"
    /\ events[1].langToggleBtn = "EN"
    /\ Back(1).before.tagged["e1"] # translations["nav-portfolio"]["jp"]
    /\ events[1].tagged["e1"] = translations["nav-portfolio"]["jp"]
    /\ events[1].storedLang = "en"
    /\ localStorage["lang"] = "jp"

\* C10: with a readable store, a 'darkMode' value other than "1" (none
\* included) makes startup leave isDarkMode false, the body without the dark
\* marker and the dark-mode button as authored; a 'lang' value other than
\* "jp" (none included) makes it leave currentLang 'en', every tagged element
\* and the language button as authored, and no 'langchange' event raised.
C10_NoSavedValueNoChange ==
    (LastOp = "initSiteControls" /\ ~storageThrows) =>
        LET b == Back(1).before
        IN  /\ b.localStorage["darkMode"] # "1" =>
                  /\ isDarkMode = FALSE
                  /\ bodyDark = FALSE
                  /\ darkModeBtn = page.darkModeBtn
            /\ b.localStorage["lang"] # "jp" =>
                  /\ currentLang = "en"
                  /\ tagged = page.tagged
                  /\ langToggleBtn = page.langToggleBtn
                  /\ events = <<>>
            /\ ~thrown

\* C10 witness: startup over a store holding "0" and "en", on a page with
\* both buttons and markup of its own, changed nothing.
C10_Witness ==
    /\ LastOp = "initSiteControls"
    /\ ~storageThrows
    /\ Back(1).before.localStorage = [darkMode |-> "0", lang |-> "en"]
    /\ page.darkModeBtn = "authored-glyph"
    /\ page.langToggleBtn = "authored-label"
    /\ page.tagged["e1"] = "authored:e1"
    /\ View(St) = [View(Back(1).before) EXCEPT
                      !.listeners = {"dark-mode-btn", "lang-toggle-btn"}]

\* C11: once applyTranslations() has run on the loaded page and the language
\* button is present, the button's label is "JP" exactly when currentLang is
\* 'en' and "EN" exactly when currentLang is 'jp', whatever toggles follow.
C11_LabelNamesOtherLanguage ==
    (hasRendered /\ langToggleBtn # NoElement) =>
        /\ (langToggleBtn = "JP") = (currentLang = "en")
        /\ (langToggleBtn = "EN") = (currentLang = "jp")

\* C11 witness: on a page whose button was authored with another label, a
\* toggle back to English and then a dark-mode toggle leave the label "JP".
C11_Witness ==
    /\ hasRendered
    /\ page.langToggleBtn = "authored-label"
    /\ Ran(2)
    /\ Back(2).op = "toggleLanguage"
    /\ Back(2).before.currentLang = "jp"
    /\ Back(1).op = "toggleDarkMode"
    /\ Back(1).before.langToggleBtn = "JP"
    /\ currentLang = "en"
    /\ langToggleBtn = "JP"

====
